---- MODULE Spec2Model ----
(***************************************************************************)
(* GoProUSB (src/gopro_usb.py): the per-camera HTTP control client, one    *)
(* caller thread driving one client against one camera.                    *)
(*                                                                         *)
(* A Python str is a sequence of one-character strings, a dict is a        *)
(* function whose DOMAIN is the set of keys that are present.  Every       *)
(* session.get is one step; the camera and the clock move between steps.   *)
(* Time is counted in units of 0.5 s (the sleep of wait_until_ready).      *)
(*                                                                         *)
(* Spec follows the operations of one client; DisplaySpec the status       *)
(* display, MediaSpec download_last_media, SettingsSpec repeated setting   *)
(* wrappers against the camera's settings map, MonitorSpec the loop of     *)
(* get_status_realtime, InstancesSpec two clients with a thread each,      *)
(* FlowSpec the main flow of example_multi_camera.py by helper results,    *)
(* ThreadsSpec the same flow by threads and requests, interrupt included,  *)
(* CallersSpec the configuration sequences of the callers, and TableSpec   *)
(* the status table of example_multi_camera.py.                            *)
(***************************************************************************)
EXTENDS Integers, Sequences, FiniteSets, TLC

\* ------------------------------------------------------------------ bounds
MaxTimeout == 2
\* the number of status polls within which the prompt camera clears status 10
ClearWithin == 3

\* --------------------------------------------------------- Python helpers
\* s[-n] of a Python sequence: IndexError ("IndexError") when n > len(s)
PyIndexFromEnd(s, n) == IF n <= Len(s) THEN s[Len(s) - n + 1] ELSE "IndexError"

\* s[-n:] of a Python sequence: the whole sequence when n > len(s)
PySliceFromEnd(s, n) == IF n <= Len(s) THEN SubSeq(s, Len(s) - n + 1, Len(s)) ELSE s

\* dict.get(k, d)
DictGet(m, k, d) == IF k \in DOMAIN m THEN m[k] ELSE d

EmptyDict == [k \in {} |-> 0]

\* --------------------------------------------------------- serial numbers
SN3 == <<"C","3","5","0","4","2","2","4","6","8","2","1","3","9">>
SN_USAGE == <<"C","1","2","3","4","5","6","7","8","9","0">>
SN_SHORT == <<"4","3","1">>
Serials == {SN3, SN_USAGE, SN_SHORT}

\* f'http://172.2{sn[-3]}.1{sn[-2:]}.51'
DeriveBaseUrl_sn2(s) ==
    <<"h","t","t","p",":","/","/","1","7","2",".","2">> \o <<PyIndexFromEnd(s, 2)>>
        \o <<".","1">> \o PySliceFromEnd(s, 2) \o <<".","5","1">>

DeriveBaseUrl(s) ==
    <<"h","t","t","p",":","/","/","1","7","2",".","2">> \o <<PyIndexFromEnd(s, 3)>>
        \o <<".","1">> \o PySliceFromEnd(s, 2) \o <<".","5","1">>

\* ------------------------------------------------------------- operations
\* session.get(url); return response  (no raise_for_status, no try)
PassThroughOps ==
    {"get_datetime", "set_datetime_now", "keep_alive", "usb_enable", "usb_disable",
     "set_control_idle", "set_control_external",
     "mode_video", "mode_photo", "mode_timelapse",
     "set_resolution_5k", "set_resolution_4k", "set_resolution_2_7k", "set_resolution_1080",
     "set_fps_200", "set_fps_120", "set_fps_60", "set_fps_30", "set_fps_24",
     "set_lens_wide", "set_lens_narrow", "set_lens_superview", "set_lens_max_superview",
     "set_lens_linear_horizon", "get_media_list",
     "set_auto_power_off_never", "set_auto_power_off_5min"}

\* try: session.get(url); raise_for_status(); return True / except: return False
GuardedOps ==
    {"set_resolution_5_3k", "set_fps_240", "set_lens_linear", "start_preview", "stop_preview"}

MultiStepOps ==
    {"get_state", "power_on", "power_off", "record_start", "record_stop",
     "is_busy", "is_encoding", "wait_until_ready"}

Ops == PassThroughOps \cup GuardedOps \cup MultiStepOps

\* every method the class GoProUSB defines
Methods ==
    Ops \cup {"get_status_realtime", "download_last_media", "get_stream_url",
              "_get_mode_name", "_get_resolution_name", "_get_fps_name", "_get_lens_name"}

\* the methods the livestream demos call on their client
LivestreamDemoCalls ==
    {"power_on", "start_livestream", "get_livestream_status", "stop_livestream", "power_off"}

\* the path each single-request operation appends to base_url
Path(o) ==
    CASE o = "get_datetime" -> "/gopro/camera/get_date_time"
      [] o = "set_datetime_now" -> "/gopro/camera/set_date_time?date=&time="
      [] o = "keep_alive" -> "/gopro/camera/keep_alive"
      [] o = "usb_enable" -> "/gopro/camera/control/wired_usb?p=1"
      [] o = "usb_disable" -> "/gopro/camera/control/wired_usb?p=0"
      [] o = "set_control_idle" -> "/gopro/camera/control/set_ui_controller?p=0"
      [] o = "set_control_external" -> "/gopro/camera/control/set_ui_controller?p=2"
      [] o = "mode_video" -> "/gopro/camera/presets/set_group?id=1000"
      [] o = "mode_photo" -> "/gopro/camera/presets/set_group?id=1001"
      [] o = "mode_timelapse" -> "/gopro/camera/presets/set_group?id=1002"
      [] o = "set_resolution_5_3k" -> "/gopro/camera/setting?setting=2&option=100"
      [] o = "set_resolution_5k" -> "/gopro/camera/setting?setting=2&option=24"
      [] o = "set_resolution_4k" -> "/gopro/camera/setting?setting=2&option=1"
      [] o = "set_resolution_2_7k" -> "/gopro/camera/setting?setting=2&option=4"
      [] o = "set_resolution_1080" -> "/gopro/camera/setting?setting=2&option=9"
      [] o = "set_fps_240" -> "/gopro/camera/setting?setting=3&option=0"
      [] o = "set_fps_200" -> "/gopro/camera/setting?setting=3&option=13"
      [] o = "set_fps_120" -> "/gopro/camera/setting?setting=3&option=1"
      [] o = "set_fps_60" -> "/gopro/camera/setting?setting=3&option=5"
      [] o = "set_fps_30" -> "/gopro/camera/setting?setting=3&option=8"
      [] o = "set_fps_24" -> "/gopro/camera/setting?setting=3&option=10"
      [] o = "set_lens_linear" -> "/gopro/camera/setting?setting=121&option=4"
      [] o = "set_lens_wide" -> "/gopro/camera/setting?setting=121&option=0"
      [] o = "set_lens_narrow" -> "/gopro/camera/setting?setting=121&option=2"
      [] o = "set_lens_superview" -> "/gopro/camera/setting?setting=121&option=3"
      [] o = "set_lens_max_superview" -> "/gopro/camera/setting?setting=121&option=7"
      [] o = "set_lens_linear_horizon" -> "/gopro/camera/setting?setting=121&option=8"
      [] o = "get_media_list" -> "/gopro/media/list"
      [] o = "set_auto_power_off_never" -> "/gopro/camera/setting?setting=59&option=0"
      [] o = "set_auto_power_off_5min" -> "/gopro/camera/setting?setting=59&option=4"
      [] o = "start_preview" -> "/gopro/webcam/start"
      [] o = "stop_preview" -> "/gopro/webcam/stop"
      [] o = "get_state" -> "/gopro/camera/state"
      [] o = "shutter_start" -> "/gopro/camera/shutter/start"
      [] o = "shutter_stop" -> "/gopro/camera/shutter/stop"

\* ---------------------------------------------------------------- transport
\* what one session.get can meet: a 2xx answer, a 4xx/5xx answer, or a
\* transport fault (connection refused, reset), raised by session.get itself
Outcomes == {"ok", "http_error", "fault"}

\* session.get(url) raises
SessionGetRaises(out) == out = "fault"

\* response.raise_for_status() raises
RaiseForStatusRaises(out) == out = "http_error"

StatusKeys == {"8", "10"}

VARIABLES
    sn,             \* the serial number the client was constructed with
    base_url,       \* self.base_url
    last_status,    \* self._last_status
    op,             \* the operation being run, or the last one run
    pc,             \* the caller's position: "idle" between operations
    result,         \* what the last operation gave its caller
    reqlog,         \* the requests of the current operation, in order
    attempt,        \* record_stop: the loop variable
    timeout,        \* wait_until_ready: the argument
    elapsed,        \* wait_until_ready: time.time() - start_time
    started,        \* the operation run just before was record_start, and gave True
    cam_rec,        \* camera: status 10
    cam_busy,       \* camera: status 8
    cam_pending,    \* camera: an accepted shutter command not yet carried out
    busy_kept       \* camera: status 8 has been set, and in every status answer, ever
                    \* since wait_until_ready was called

\* the status display (get_status_realtime, lines 61-73)
VARIABLES
    fetched,        \* state = self.get_state(): the fetched body being displayed
    shown           \* the lines printed for it, by item

\* download_last_media
VARIABLES
    dest,            \* the output_filename argument, as the caller passed it
    output_filename, \* the local output_filename
    media_data,      \* media_data = ml.json()
    last_dir,        \* last_dir
    last_file,       \* last_file
    written          \* the name of the file opened for writing, <<>> while none is

\* the camera's settings, and a caller that repeats a setting wrapper
VARIABLES
    cam_settings,    \* camera: the 'settings' map
    once             \* the wrapper called just before and accepted, and the camera's
                     \* settings and the client's attributes as that call left them

\* get_status_realtime
VARIABLES
    duration,        \* the duration argument: {} for None, {d} for the number d
    interval         \* the interval argument

\* several clients, one worker thread on each (example_multi_camera.py)
VARIABLES
    cameras_gopro,   \* cameras_gopro[name]: the attributes of that camera's client
    worker,          \* the method the thread working on each client runs, and where
    wire,            \* the request sent last, by whose thread and to which URL
    turn             \* the thread that took the last step

\* the main flow of example_multi_camera.py
VARIABLES
    flow_step,       \* the step of main being run: 1..8, 9 finished, 0 in 'except Exception'
    flow_round,      \* step 5: the rounds of display_all_status done
    flow_done,       \* the cameras whose helper of this step has returned
    flow_failed,     \* the cameras on which some helper met a fault or gave False
    flow_tried       \* the <<step, camera>> whose helper has been called

\* the threads of example_multi_camera.py's main: main itself and its pools
VARIABLES
    main_phase,      \* main: "try", "interrupted" (KeyboardInterrupt raised), "handler"
                     \* (its stop tasks submitted), "handler_exit" (its power-off
                     \* tasks submitted too), "exited"
    main_step,       \* the step of the try block main is at: 1..8, 9 past the last
    main_round,      \* step 5: the rounds of display_all_status done
    submitted,       \* the helpers of this step have been handed out
    pool_queue,      \* the helpers handed out and not begun, oldest first
    running,         \* the helpers begun and not returned: helper, camera, requests sent
    configured,      \* the cameras configure_camera has returned for
    sent_last        \* the request sent last: to which camera, which path

\* a caller's configuration sequence (configure_camera, example_usage.py,
\* example_opencv.py, or a caller of its own)
VARIABLES
    caller,          \* the function whose configuration sequence is run
    script,          \* the client calls of that sequence, in order
    called           \* the number of them made so far

clientvars == <<sn, base_url, last_status, op, pc, result, reqlog, attempt, timeout,
                elapsed, started>>
camvars == <<cam_rec, cam_busy, cam_pending, busy_kept>>
dispvars == <<fetched, shown>>
mediavars == <<dest, output_filename, media_data, last_dir, last_file, written>>
setvars == <<cam_settings, once>>
monvars == <<duration, interval>>
instvars == <<cameras_gopro, worker, wire, turn>>
flowvars == <<flow_step, flow_round, flow_done, flow_failed, flow_tried>>
callervars == <<caller, script, called>>
threadvars == <<main_phase, main_step, main_round, submitted, pool_queue, running,
                configured, sent_last>>
\* what the operations of one client against one camera leave alone
others == <<dispvars, mediavars, setvars, monvars, instvars, flowvars, threadvars, callervars>>
\* what the status display, the download, the setting wrappers, the status
\* monitor, the worker threads and the main flow leave alone
beside_display == <<mediavars, setvars, monvars, instvars, flowvars, threadvars, callervars>>
beside_media == <<dispvars, setvars, monvars, instvars, flowvars, threadvars, callervars>>
beside_settings == <<dispvars, mediavars, monvars, instvars, flowvars, threadvars, callervars>>
beside_monitor == <<mediavars, setvars, instvars, flowvars, threadvars, callervars>>
beside_instances ==
    <<clientvars, camvars, dispvars, mediavars, setvars, monvars, flowvars, threadvars, callervars>>
beside_flow ==
    <<clientvars, camvars, dispvars, mediavars, setvars, monvars, instvars, threadvars,
      callervars>>
beside_threads ==
    <<clientvars, camvars, dispvars, mediavars, setvars, monvars, instvars, flowvars,
      callervars>>
beside_callers == <<camvars, dispvars, mediavars, setvars, monvars, instvars, flowvars,
                    threadvars>>
vars == <<clientvars, camvars, others>>

\* nothing fetched for display, nothing printed
DisplayIdle == fetched = EmptyDict /\ shown = EmptyDict
\* download_last_media not called
MediaIdle ==
    /\ dest = <<>> /\ output_filename = <<>> /\ media_data = EmptyDict
    /\ last_dir = <<>> /\ last_file = <<>> /\ written = <<>>
\* the settings of the camera before any wrapper is called
InitialSettings == ("2" :> "9" @@ "3" :> "8" @@ "121" :> "19" @@ "59" :> "4")
NoCall == [op |-> "none", settings |-> EmptyDict, client |-> <<>>]
SettingsIdle == cam_settings = InitialSettings /\ once = NoCall
\* get_status_realtime not called
MonitorIdle == duration = {} /\ interval = 0
\* no client of example_multi_camera.py constructed, its main not started
InstancesIdle ==
    /\ cameras_gopro = EmptyDict /\ worker = EmptyDict
    /\ wire = [by |-> "none", url |-> <<>>] /\ turn = "none"
FlowIdle ==
    /\ flow_step = 1 /\ flow_round = 0
    /\ flow_done = {} /\ flow_failed = {} /\ flow_tried = {}
\* main of example_multi_camera.py not started: no helper handed out or begun
NoRequest == [camera |-> "none", path |-> "none"]
ThreadsIdle ==
    /\ main_phase = "try" /\ main_step = 1 /\ main_round = 0 /\ submitted = FALSE
    /\ pool_queue = <<>> /\ running = {} /\ configured = {} /\ sent_last = NoRequest
\* no configuration sequence begun
CallersIdle == caller = "none" /\ script = <<>> /\ called = 0
OthersIdle ==
    /\ DisplayIdle /\ MediaIdle /\ SettingsIdle /\ MonitorIdle /\ InstancesIdle /\ FlowIdle
    /\ ThreadsIdle /\ CallersIdle
IdleBesideDisplay ==
    MediaIdle /\ SettingsIdle /\ MonitorIdle /\ InstancesIdle /\ FlowIdle /\ ThreadsIdle /\ CallersIdle
IdleBesideMedia ==
    DisplayIdle /\ SettingsIdle /\ MonitorIdle /\ InstancesIdle /\ FlowIdle /\ ThreadsIdle /\ CallersIdle
IdleBesideSettings ==
    DisplayIdle /\ MediaIdle /\ MonitorIdle /\ InstancesIdle /\ FlowIdle /\ ThreadsIdle /\ CallersIdle
IdleBesideCallers ==
    /\ DisplayIdle /\ MediaIdle /\ SettingsIdle /\ MonitorIdle /\ InstancesIdle /\ FlowIdle
    /\ ThreadsIdle
IdleBesideMonitor ==
    MediaIdle /\ SettingsIdle /\ InstancesIdle /\ FlowIdle /\ ThreadsIdle /\ CallersIdle

TypeOK ==
    /\ sn \in Serials
    /\ op \in Ops \cup LivestreamDemoCalls \cup {"none"}
    /\ result \in {"none", "True", "False", "Response", "dict", "raised", "AttributeError"}
    /\ attempt \in 0..10
    /\ timeout \in 0..MaxTimeout
    /\ elapsed \in 0..MaxTimeout + 1
    /\ started \in BOOLEAN
    /\ cam_rec \in {0, 1}
    /\ cam_busy \in {0, 1}
    /\ cam_pending \in {"none", "start", "stop"}
    /\ busy_kept \in BOOLEAN

\* GoProUSB.__init__
Init ==
    /\ sn \in Serials
    /\ base_url = DeriveBaseUrl(sn)
    /\ last_status = EmptyDict
    /\ op = "none"
    /\ pc = "idle"
    /\ result = "none"
    /\ reqlog = <<>>
    /\ attempt = 0
    /\ timeout = 0
    /\ elapsed = 0
    /\ started = FALSE
    /\ cam_rec \in {0, 1}
    /\ cam_busy \in {0, 1}
    /\ cam_pending = "none"
    /\ busy_kept = FALSE
    /\ OthersIdle

\* ------------------------------------------------------------------ camera
\* the 'status' map of the camera; the firmware may leave keys out of an answer
CamStatus == [k \in StatusKeys |-> IF k = "8" THEN cam_busy ELSE cam_rec]

StateBody(keys) == [f \in {"status"} |-> [k \in keys |-> CamStatus[k]]]

\* what the camera does with a request it answers, by path
CameraReact(path, out) ==
    /\ UNCHANGED <<cam_rec, cam_busy, busy_kept>>
    /\ cam_pending' =
         IF out = "ok" /\ path = Path("shutter_start")
           THEN (IF cam_rec = 1 THEN cam_pending ELSE "start")
         ELSE IF out = "ok" /\ path = Path("shutter_stop")
           THEN (IF cam_rec = 1 THEN "stop" ELSE "none")
         ELSE cam_pending

\* The camera moves while an operation runs.  A move between two operations is
\* the same, to the client, as that move right after the next call begins.

\* the camera starts the recording it was asked for
CameraStartRecording ==
    /\ pc # "idle"
    /\ cam_pending = "start"
    /\ cam_rec' = 1
    /\ cam_pending' = "none"
    /\ UNCHANGED <<others, clientvars, cam_busy, busy_kept>>

\* the camera does not start (wrong mode, no card)
CameraDeclineStart ==
    /\ pc # "idle"
    /\ cam_pending = "start"
    /\ cam_pending' = "none"
    /\ UNCHANGED <<others, clientvars, cam_rec, cam_busy, busy_kept>>

\* the camera finishes the file and clears the recording flag
CameraFinalize ==
    /\ pc # "idle"
    /\ cam_pending = "stop"
    /\ cam_rec' = 0
    /\ cam_pending' = "none"
    /\ UNCHANGED <<others, clientvars, cam_busy, busy_kept>>

\* the busy flag changes
CameraBusyChange ==
    /\ pc # "idle"
    /\ cam_busy' = 1 - cam_busy
    /\ busy_kept' = (busy_kept /\ cam_busy' = 1)
    /\ UNCHANGED <<others, clientvars, cam_rec, cam_pending>>

\* ------------------------------------------------------------------ client
\* one entry of the request log: where the request went, how it ended, and, for
\* a status fetch whose answer the operation tests, the status key it looked up
\* and the value found there ({}: no answer, or the key was not in the answer).
\* The entry of a status fetch also holds the body of the answer (GetState)
Request(path, out, key, val) ==
    [url |-> <<base_url, path>>, out |-> out, key |-> key, val |-> val]

\* self.session.get(self.base_url + path): the request goes out, the camera reacts
SessionGet(path, out) ==
    /\ reqlog' = Append(reqlog, Request(path, out, "", {}))
    /\ CameraReact(path, out)

\* get_state raises: session.get (transport fault) or raise_for_status (4xx/5xx)
GetStateRaises(out) == SessionGetRaises(out) \/ RaiseForStatusRaises(out)

\* get_state with the assignment moved before raise_for_status
GetState_unchecked(out, keys, key) ==
    /\ reqlog' = Append(reqlog, Request(Path("get_state"), out, key,
                           IF out = "ok" /\ key \in keys THEN {CamStatus[key]} ELSE {})
                         @@ [body |-> IF out = "ok" THEN StateBody(keys) ELSE EmptyDict])
    /\ cam_pending' = cam_pending
    /\ UNCHANGED <<cam_rec, cam_busy>>
    /\ busy_kept' = (busy_kept /\ (out = "ok" => "8" \in keys))
    /\ last_status' = IF SessionGetRaises(out) THEN last_status ELSE StateBody(keys)

\* GoProUSB.get_state: _last_status is assigned only when nothing was raised
GetState(out, keys, key) ==
    /\ reqlog' = Append(reqlog, Request(Path("get_state"), out, key,
                           IF out = "ok" /\ key \in keys THEN {CamStatus[key]} ELSE {})
                         @@ [body |-> IF out = "ok" THEN StateBody(keys) ELSE EmptyDict])
    /\ cam_pending' = cam_pending
    /\ UNCHANGED <<cam_rec, cam_busy>>
    /\ busy_kept' = (busy_kept /\ (out = "ok" => "8" \in keys))
    /\ last_status' = IF GetStateRaises(out) THEN last_status ELSE StateBody(keys)

\* the operation returns v to its caller (or raises: v = "raised"); its locals go
Return(v) ==
    /\ pc' = "idle"
    /\ result' = v
    /\ attempt' = 0
    /\ elapsed' = 0

\* the operation goes on at p
Goto(p) ==
    /\ pc' = p
    /\ UNCHANGED <<result, attempt, elapsed>>

Entry(o) ==
    CASE o \in PassThroughOps \cup GuardedOps -> "get"
      [] o \in {"get_state", "is_busy", "is_encoding"} -> "get_state"
      [] o = "power_on" -> "usb_enable"
      [] o = "power_off" -> "usb_disable"
      [] o \in {"record_start", "record_stop"} -> "shutter"
      [] o = "wait_until_ready" -> "loop"

\* the caller calls operation o (t: the timeout argument of wait_until_ready)
Invoke(o, t) ==
    /\ pc = "idle"
    /\ op' = o
    /\ pc' = Entry(o)
    /\ result' = "none"
    /\ reqlog' = <<>>
    /\ attempt' = 0
    /\ timeout' = t
    /\ elapsed' = 0
    /\ started' = (o = "record_stop" /\ op = "record_start" /\ result = "True")
    /\ busy_kept' = (o = "wait_until_ready" /\ cam_busy = 1)
    /\ UNCHANGED <<sn, base_url, last_status>>
    /\ UNCHANGED <<cam_rec, cam_busy, cam_pending, others>>

Call == \E o \in Ops \ {"wait_until_ready"} : Invoke(o, 0)

CallWait == \E t \in 0..MaxTimeout : Invoke("wait_until_ready", t)

\* the caller calls gopro.o(...) for a name o the class does not define: the
\* attribute lookup raises AttributeError, no request is sent
CallUndefined ==
    /\ pc = "idle"
    /\ \E o \in LivestreamDemoCalls \ Methods : op' = o
    /\ result' = "AttributeError"
    /\ reqlog' = <<>>
    /\ started' = FALSE
    /\ busy_kept' = FALSE
    /\ UNCHANGED <<sn, base_url, last_status, pc, attempt, timeout, elapsed>>
    /\ UNCHANGED <<cam_rec, cam_busy, cam_pending, others>>

\* what stays as it is while an operation runs
Frame == UNCHANGED <<sn, base_url, op, timeout, started, others>>

\* ---- the tests the operations make on a fetched state
\* record_start: state['status'].get('10', 0) == 1
RecordingStarted_nonzero(state) == DictGet(state["status"], "10", 1) # 0

RecordingStarted(state) == DictGet(state["status"], "10", 0) = 1

\* record_stop: state['status'].get('10', 0) == 0
RecordingStopped_never(state) == FALSE

RecordingStopped(state) == DictGet(state["status"], "10", 0) = 0

\* is_busy: state['status'].get('8', 0) != 0
IsBusyTest(state) == DictGet(state["status"], "8", 0) # 0

\* is_encoding: state['status'].get('10', 0) != 0
IsEncodingTest_flag8(state) == DictGet(state["status"], "8", 0) # 0

IsEncodingTest(state) == DictGet(state["status"], "10", 0) # 0

PyBool(b) == IF b THEN "True" ELSE "False"

\* ---- single-request operations
\* response = self.session.get(url); return response
PassThroughGet ==
    /\ op \in PassThroughOps /\ pc = "get"
    /\ \E out \in Outcomes :
         /\ SessionGet(Path(op), out)
         /\ Return(IF SessionGetRaises(out) THEN "raised" ELSE "Response")
    /\ UNCHANGED last_status
    /\ Frame

\* try: get; raise_for_status; return True / except Exception: return False
GuardedGet ==
    /\ op \in GuardedOps /\ pc = "get"
    /\ \E out \in Outcomes :
         /\ SessionGet(Path(op), out)
         /\ Return(PyBool(~(SessionGetRaises(out) \/ RaiseForStatusRaises(out))))
    /\ UNCHANGED last_status
    /\ Frame

\* get_state called by the caller
get_state ==
    /\ op = "get_state" /\ pc = "get_state"
    /\ \E out \in Outcomes, keys \in SUBSET StatusKeys :
         /\ out # "ok" => keys = {}
         /\ GetState(out, keys, "")
         /\ Return(IF GetStateRaises(out) THEN "raised" ELSE "dict")
    /\ Frame

is_busy ==
    /\ op = "is_busy" /\ pc = "get_state"
    /\ \E out \in Outcomes, keys \in SUBSET StatusKeys :
         /\ out # "ok" => keys = {}
         /\ GetState(out, keys, "8")
         /\ Return(IF GetStateRaises(out) THEN "raised" ELSE PyBool(IsBusyTest(StateBody(keys))))
    /\ Frame

is_encoding ==
    /\ op = "is_encoding" /\ pc = "get_state"
    /\ \E out \in Outcomes, keys \in SUBSET StatusKeys :
         /\ out # "ok" => keys = {}
         /\ GetState(out, keys, "10")
         /\ Return(IF GetStateRaises(out) THEN "raised"
                   ELSE PyBool(IsEncodingTest(StateBody(keys))))
    /\ Frame

\* ---- power
\* power_on: where control goes after a step, raised or not (try ... except Exception)
power_on_next_ignoring(step, raised) ==
    CASE step = "usb_enable" -> "set_control_external"
      [] step = "set_control_external" -> "get_state"
      [] step = "get_state" -> "return True"

power_on_next(step, raised) ==
    IF raised THEN "return False"
    ELSE CASE step = "usb_enable" -> "set_control_external"
           [] step = "set_control_external" -> "get_state"
           [] step = "get_state" -> "return True"

\* self.usb_enable() / self.set_control_external(): the response is not looked at
power_on_request ==
    /\ op = "power_on" /\ pc \in {"usb_enable", "set_control_external"}
    /\ \E out \in Outcomes :
         /\ SessionGet(Path(pc), out)
         /\ LET next == power_on_next(pc, SessionGetRaises(out))
            IN  IF next = "return False" THEN Return("False") ELSE Goto(next)
    /\ UNCHANGED last_status
    /\ Frame

\* state = self.get_state(); return True
power_on_get_state ==
    /\ op = "power_on" /\ pc = "get_state"
    /\ \E out \in Outcomes, keys \in SUBSET StatusKeys :
         /\ out # "ok" => keys = {}
         /\ GetState(out, keys, "")
         /\ Return(IF power_on_next(pc, GetStateRaises(out)) = "return True"
                   THEN "True" ELSE "False")
    /\ Frame

\* power_off: self.usb_disable(); return True / except: return False
power_off ==
    /\ op = "power_off" /\ pc = "usb_disable"
    /\ \E out \in Outcomes :
         /\ SessionGet(Path("usb_disable"), out)
         /\ Return(PyBool(~SessionGetRaises(out)))
    /\ UNCHANGED last_status
    /\ Frame

\* ---- recording
\* record_start: GET shutter/start, raise_for_status
record_start_shutter ==
    /\ op = "record_start" /\ pc = "shutter"
    /\ \E out \in Outcomes :
         /\ SessionGet(Path("shutter_start"), out)
         /\ IF SessionGetRaises(out) \/ RaiseForStatusRaises(out)
              THEN Return("False")
              ELSE Goto("verify")
    /\ UNCHANGED last_status
    /\ Frame

\* record_start: time.sleep(0.5); state = self.get_state(); the flag decides
record_start_verify ==
    /\ op = "record_start" /\ pc = "verify"
    /\ \E out \in Outcomes, keys \in SUBSET StatusKeys :
         /\ out # "ok" => keys = {}
         /\ GetState(out, keys, "10")
         /\ Return(IF GetStateRaises(out) THEN "False"
                   ELSE PyBool(RecordingStarted(StateBody(keys))))
    /\ Frame

\* record_stop: max_attempts = 5
max_attempts_more == 5 + 1

max_attempts == 5

\* record_stop: what the final check returns, the flag cleared or not
record_stop_final_result_strict(stopped) == PyBool(stopped)

record_stop_final_result(stopped) == IF stopped THEN "True" ELSE "True"

\* record_stop: GET shutter/stop, raise_for_status
record_stop_shutter ==
    /\ op = "record_stop" /\ pc = "shutter"
    /\ \E out \in Outcomes :
         /\ SessionGet(Path("shutter_stop"), out)
         /\ IF SessionGetRaises(out) \/ RaiseForStatusRaises(out)
              THEN Return("False")
              ELSE Goto(IF 0 < max_attempts THEN "poll" ELSE "final")
    /\ UNCHANGED last_status
    /\ Frame

\* record_stop: one turn of  for attempt in range(max_attempts)
record_stop_poll ==
    /\ op = "record_stop" /\ pc = "poll"
    /\ \E out \in Outcomes, keys \in SUBSET StatusKeys :
         /\ out # "ok" => keys = {}
         /\ GetState(out, keys, "10")
         /\ IF GetStateRaises(out) THEN Return("False")
            ELSE IF RecordingStopped(StateBody(keys)) THEN Return("True")
            ELSE /\ attempt' = attempt + 1
                 /\ pc' = IF attempt + 1 < max_attempts THEN "poll" ELSE "final"
                 /\ UNCHANGED <<result, elapsed>>
    /\ Frame

\* record_stop: the final check after the loop
record_stop_final ==
    /\ op = "record_stop" /\ pc = "final"
    /\ \E out \in Outcomes, keys \in SUBSET StatusKeys :
         /\ out # "ok" => keys = {}
         /\ GetState(out, keys, "10")
         /\ Return(IF GetStateRaises(out) THEN "False"
                   ELSE record_stop_final_result(RecordingStopped(StateBody(keys))))
    /\ Frame

\* ---- wait_until_ready
\* while time.time() - start_time < timeout: ... return False
wait_until_ready_loop ==
    /\ op = "wait_until_ready" /\ pc = "loop"
    /\ IF elapsed < timeout THEN Goto("is_busy") ELSE Return("False")
    /\ UNCHANGED <<last_status, reqlog, camvars>>
    /\ Frame

\* if not self.is_busy() ...
wait_until_ready_is_busy ==
    /\ op = "wait_until_ready" /\ pc = "is_busy"
    /\ \E out \in Outcomes, keys \in SUBSET StatusKeys :
         /\ out # "ok" => keys = {}
         /\ GetState(out, keys, "8")
         /\ IF GetStateRaises(out) THEN Return("raised")
            ELSE Goto(IF IsBusyTest(StateBody(keys)) THEN "sleep" ELSE "is_encoding")
    /\ Frame

\* ... and not self.is_encoding(): return True
wait_until_ready_is_encoding ==
    /\ op = "wait_until_ready" /\ pc = "is_encoding"
    /\ \E out \in Outcomes, keys \in SUBSET StatusKeys :
         /\ out # "ok" => keys = {}
         /\ GetState(out, keys, "10")
         /\ IF GetStateRaises(out) THEN Return("raised")
            ELSE IF IsEncodingTest(StateBody(keys)) THEN Goto("sleep")
            ELSE Return("True")
    /\ Frame

\* the clock is followed up to one unit past the largest timeout
ElapsedCap == MaxTimeout + 1

\* time.sleep(0.5)
wait_until_ready_sleep ==
    /\ op = "wait_until_ready" /\ pc = "sleep"
    /\ elapsed' = IF elapsed < ElapsedCap THEN elapsed + 1 ELSE elapsed
    /\ pc' = "loop"
    /\ UNCHANGED <<last_status, reqlog, attempt, result, camvars>>
    /\ Frame

\* a status request takes time: no request of the client has a timeout
RequestLatency ==
    /\ op = "wait_until_ready" /\ pc \in {"is_busy", "is_encoding"}
    /\ elapsed < ElapsedCap
    /\ elapsed' = elapsed + 1
    /\ UNCHANGED <<sn, base_url, last_status, op, pc, result, reqlog, attempt, timeout,
                   started, camvars, others>>

Next ==
    \/ Call
    \/ CallWait
    \/ CallUndefined
    \/ PassThroughGet
    \/ GuardedGet
    \/ get_state
    \/ is_busy
    \/ is_encoding
    \/ power_on_request
    \/ power_on_get_state
    \/ power_off
    \/ record_start_shutter
    \/ record_start_verify
    \/ record_stop_shutter
    \/ record_stop_poll
    \/ record_stop_final
    \/ wait_until_ready_loop
    \/ wait_until_ready_is_busy
    \/ wait_until_ready_is_encoding
    \/ wait_until_ready_sleep
    \/ RequestLatency
    \/ CameraStartRecording
    \/ CameraDeclineStart
    \/ CameraFinalize
    \/ CameraBusyChange

Spec == Init /\ [][Next]_vars

\* ================================================================== claims
IsFetch(r) == r.url[2] = "/gopro/camera/state"
Fetches == {i \in DOMAIN reqlog : IsFetch(reqlog[i])}
Returned(o) == op = o /\ pc = "idle"

\* C1: record_start gives True exactly when shutter-start was answered 2xx and
\* the one status fetch made after it was answered 2xx with status 10 present
\* and equal to 1; it gives False otherwise, and fetches the status once after
\* an accepted shutter-start and not at all after a refused one.
C1_RecordStartVerdict ==
    Returned("record_start") =>
        LET accepted == reqlog[1].out = "ok" IN
        /\ reqlog[1].url = <<base_url, "/gopro/camera/shutter/start">>
        /\ Cardinality(Fetches) = (IF accepted THEN 1 ELSE 0)
        /\ result \in {"True", "False"}
        /\ result = "True" <=>
             /\ accepted
             /\ Len(reqlog) = 2
             /\ IsFetch(reqlog[2]) /\ reqlog[2].out = "ok" /\ reqlog[2].val = {1}

C1_Witness ==
    /\ Returned("record_start") /\ result = "True"
    /\ Len(reqlog) = 2 /\ reqlog[2].val = {1}

\* the steps of record_stop
record_stop_step == record_stop_shutter \/ record_stop_poll \/ record_stop_final

\* every status fetch of the log was answered 2xx with status 10 = 1
NeverCleared == \A i \in Fetches : reqlog[i].out = "ok" /\ reqlog[i].val = {1}

\* C2: against a camera that accepts shutter-stop and answers every status
\* fetch with status 10 = 1, record_stop finishes (while it runs a step of it
\* is enabled and it has sent at most 6 requests) and gives True.
C2_LenientStop ==
    (op = "record_stop" /\ Len(reqlog) >= 1 /\ reqlog[1].out = "ok" /\ NeverCleared) =>
        /\ pc # "idle" => (ENABLED record_stop_step) /\ Len(reqlog) <= 6
        /\ pc = "idle" => result = "True"

C2_Witness ==
    /\ Returned("record_stop") /\ result = "True"
    /\ reqlog[1].out = "ok" /\ NeverCleared /\ Cardinality(Fetches) > 1
    /\ cam_rec = 1

\* C3 as claimed: record_stop fetches the status at most 5 times in all, and
\* returns at the first fetch that reads status 10 as 0.
C3_AtMostFiveFetches ==
    op = "record_stop" =>
        /\ Cardinality(Fetches) <= 5
        /\ \A i \in Fetches : reqlog[i].val = {0} => i = Len(reqlog) /\ pc = "idle"

\* C3 as amended: record_stop fetches the status at most 6 times in all (the 5
\* turns of the loop and the final check), and returns, with True, at the first
\* fetch that reads status 10 as 0.
C3_AtMostSixFetches ==
    op = "record_stop" =>
        /\ Cardinality(Fetches) <= 6
        /\ \A i \in Fetches :
             reqlog[i].val = {0} => i = Len(reqlog) /\ pc = "idle" /\ result = "True"

C3_Witness ==
    /\ Returned("record_stop")
    /\ Cardinality(Fetches) = 6
    /\ reqlog[Len(reqlog)].val = {0}

\* the status answers of the log are those of a prompt camera: each is a 2xx
\* answer that carries status 10, and from poll number ClearWithin on it is 0
PromptCamera ==
    \A i \in Fetches :
        /\ reqlog[i].out = "ok"
        /\ reqlog[i].val # {}
        /\ i - 1 >= ClearWithin => reqlog[i].val = {0}

\* C4: record_start gave True and record_stop is called next, the camera
\* accepts shutter-stop and is prompt: record_stop makes at most ClearWithin
\* status fetches, gives True, the last fetch having read status 10 = 0, and
\* the camera's status 10 is 0 when it returns.
C4_StartThenStop ==
    (op = "record_stop" /\ started /\ Len(reqlog) >= 1 /\ reqlog[1].out = "ok"
        /\ PromptCamera) =>
        /\ Cardinality(Fetches) <= ClearWithin
        /\ pc = "idle" =>
             /\ result = "True"
             /\ reqlog[Len(reqlog)].val = {0}
             /\ cam_rec = 0

C4_Witness ==
    /\ Returned("record_stop") /\ started /\ reqlog[1].out = "ok" /\ PromptCamera
    /\ Cardinality(Fetches) = ClearWithin
    /\ result = "True"

\* C5 as claimed: record_stop gives True exactly when shutter-stop was answered
\* 2xx, whatever the status fetches that follow meet.
C5_TrueWheneverStopSent ==
    Returned("record_stop") => (result = "True" <=> reqlog[1].out = "ok")

\* C6 as claimed: wait_until_ready gives False when the camera kept status 8
\* set (and answered so) throughout the call, and gives True as soon as an
\* is_busy fetch read status 8 = 0 and the is_encoding fetch after it read
\* status 10 = 0, whatever else the camera does.
C6_WaitUntilReady ==
    op = "wait_until_ready" =>
        /\ (pc = "idle" /\ busy_kept) => result = "False"
        /\ \A i \in Fetches :
             (/\ i > 1
              /\ reqlog[i - 1].key = "8" /\ reqlog[i - 1].val = {0}
              /\ reqlog[i].key = "10" /\ reqlog[i].val = {0})
                 => i = Len(reqlog) /\ pc = "idle" /\ result = "True"

\* the address the formula gives for serial s, written out
FormatHost(s) ==
    <<"h","t","t","p",":","/","/","1","7","2",".","2", s[Len(s) - 2], ".", "1",
      s[Len(s) - 1], s[Len(s)], ".", "5", "1">>

\* C7: for a serial of length >= 3 base_url is 'http://172.2' sn[-3] '.1'
\* sn[-2:] '.51' ('C3504224682139' gives http://172.21.139.51), at construction
\* and after every operation.
C7_AddressDerivation ==
    /\ Len(sn) >= 3 => base_url = FormatHost(sn)
    /\ sn = SN3 => base_url = <<"h","t","t","p",":","/","/","1","7","2",".","2","1",".",
                                "1","3","9",".","5","1">>

C7_Witness ==
    /\ sn = SN3
    /\ Returned("record_stop") /\ Len(reqlog) > 1
    /\ base_url = <<"h","t","t","p",":","/","/","1","7","2",".","2","1",".",
                    "1","3","9",".","5","1">>

\* C8 as claimed: no operation lets a transport fault or a 4xx/5xx answer reach
\* its caller as an exception.
C8_NoFaultPropagates == pc = "idle" => result # "raised"

\* C9 as claimed: power_on gives False when 'enable wired control' or 'set
\* controller external' was answered 4xx/5xx, power_off gives False when
\* 'disable wired control' was.
C9_RejectedIsFailure ==
    /\ (Returned("power_on") /\ \E i \in DOMAIN reqlog :
                                   ~IsFetch(reqlog[i]) /\ reqlog[i].out = "http_error")
           => result = "False"
    /\ (Returned("power_off") /\ reqlog[1].out = "http_error") => result = "False"

power_on_paths ==
    <<"/gopro/camera/control/wired_usb?p=1",
      "/gopro/camera/control/set_ui_controller?p=2",
      "/gopro/camera/state">>

\* C10: the requests of power_on are, in this order, wired_usb?p=1,
\* set_ui_controller?p=2 and the status fetch, all to base_url; it gives True
\* only after a status fetch answered 2xx; and a request that met a transport
\* fault is the last one: power_on then returns False.
C10_PowerOnOrder ==
    op = "power_on" =>
        /\ Len(reqlog) <= 3
        /\ \A i \in DOMAIN reqlog : reqlog[i].url = <<base_url, power_on_paths[i]>>
        /\ (pc = "idle" /\ result = "True") => (Len(reqlog) = 3 /\ reqlog[3].out = "ok")
        /\ \A i \in DOMAIN reqlog :
             reqlog[i].out = "fault" => i = Len(reqlog) /\ pc = "idle" /\ result = "False"

C10_Witness ==
    /\ Returned("power_on") /\ result = "True"
    /\ Len(reqlog) = 3 /\ reqlog[3].out = "ok"

\* a status fetch answered 2xx whose body lacks the key the operation looks up
KeyAbsent(r) == IsFetch(r) /\ r.out = "ok" /\ r.val = {}

\* C11: a key absent from a fetched state is unknown, never zero: record_stop
\* does not return from its loop on a state without status 10 (that return
\* says the recording stopped and the file is saved), and is_busy and
\* is_encoding do not answer False on a state without status 8 or 10.
C11_AbsentKeyIsUnknown ==
    \A i \in DOMAIN reqlog :
        KeyAbsent(reqlog[i]) =>
            /\ (op = "record_stop" /\ i <= max_attempts + 1) =>
                   ~(i = Len(reqlog) /\ pc = "idle")
            /\ (Returned("is_busy") \/ Returned("is_encoding")) => result # "False"

\* ================================================== the status display
\* An ID is written as Python prints it: 1 is "1", the default 'N/A' is "N/A".

\* f"Unknown ({id})"
Unknown(id) == "Unknown (" \o id \o ")"

modes == ("0" :> "Video" @@ "1" :> "Photo" @@ "2" :> "Timelapse")

resolutions ==
    ("1" :> "4K" @@ "4" :> "2.7K" @@ "6" :> "2.7K 4:3" @@ "7" :> "1440p" @@
     "9" :> "1080p" @@ "18" :> "4K 4:3" @@ "24" :> "5K" @@ "25" :> "5K 4:3" @@
     "100" :> "5.3K")

fps_map ==
    ("0" :> "240" @@ "1" :> "120" @@ "2" :> "100" @@ "5" :> "60" @@ "6" :> "50" @@
     "8" :> "30" @@ "9" :> "25" @@ "10" :> "24" @@ "13" :> "200")

lenses ==
    ("2" :> "Narrow" @@ "3" :> "Superview" @@ "4" :> "Linear" @@
     "7" :> "Max Superview" @@ "8" :> "Linear + Horizon" @@ "19" :> "Wide")

\* modes.get(mode_id, f"Unknown ({mode_id})")
get_mode_name(mode_id) == DictGet(modes, mode_id, Unknown(mode_id))

get_resolution_name(res_id) == DictGet(resolutions, res_id, Unknown(res_id))

get_fps_name(fps_id) == DictGet(fps_map, fps_id, Unknown(fps_id))

get_lens_name(lens_id) == DictGet(lenses, lens_id, Unknown(lens_id))

\* 'YES' if ... else 'NO'
YesNo(b) == IF b THEN "YES" ELSE "NO"

\* the eight items get_status_realtime prints for a fetched state
StatusDisplay(st) ==
    [battery    |-> DictGet(st["status"], "70", "N/A"),
     recording  |-> YesNo(DictGet(st["status"], "10", "0") = "1"),
     mode       |-> get_mode_name(DictGet(st["status"], "43", "0")),
     busy       |-> YesNo(DictGet(st["status"], "8", "0") = "1"),
     storage    |-> DictGet(st["status"], "54", "N/A"),
     resolution |-> get_resolution_name(DictGet(st["settings"], "2", "N/A")),
     fps        |-> get_fps_name(DictGet(st["settings"], "3", "N/A")),
     lens       |-> get_lens_name(DictGet(st["settings"], "121", "N/A"))]

\* the key each printed item is read from
ItemKey ==
    [battery    |-> <<"status", "70">>,
     recording  |-> <<"status", "10">>,
     mode       |-> <<"status", "43">>,
     busy       |-> <<"status", "8">>,
     storage    |-> <<"status", "54">>,
     resolution |-> <<"settings", "2">>,
     fps        |-> <<"settings", "3">>,
     lens       |-> <<"settings", "121">>]

\* the values a camera may report under each key read by the display; "7",
\* "3", "4" and "0" (lens) are IDs the name tables do not list
StatusValues ==
    ("70" :> {"80"} @@ "10" :> {"0", "1"} @@ "43" :> {"0", "1", "7"} @@
     "8" :> {"0", "1"} @@ "54" :> {"900"})

SettingValues == ("2" :> {"1", "3"} @@ "3" :> {"8", "4"} @@ "121" :> {"19", "0"})

\* the sparse maps over vals: any subset of the keys, each with one of its values
SparseMaps(vals) ==
    UNION {{f \in [K -> UNION {vals[k] : k \in K}] : \A k \in K : f[k] \in vals[k]} :
           K \in SUBSET DOMAIN vals}

\* the bodies of GET /gopro/camera/state: both maps present, either one sparse
Snapshots == [status : SparseMaps(StatusValues), settings : SparseMaps(SettingValues)]

\* one constructed client and its camera, no operation called
AtRest ==
    /\ sn = SN3
    /\ base_url = DeriveBaseUrl(sn)
    /\ last_status = EmptyDict
    /\ op = "none" /\ pc = "idle" /\ result = "none" /\ reqlog = <<>>
    /\ attempt = 0 /\ timeout = 0 /\ elapsed = 0 /\ started = FALSE
    /\ cam_rec = 0 /\ cam_busy = 0 /\ cam_pending = "none" /\ busy_kept = FALSE

DisplayInit ==
    /\ AtRest /\ IdleBesideDisplay
    /\ fetched \in Snapshots
    /\ shown = EmptyDict

\* the print lines of get_status_realtime, for the fetched state
ShowStatus ==
    /\ shown = EmptyDict
    /\ shown' = StatusDisplay(fetched)
    /\ UNCHANGED <<fetched, clientvars, camvars, beside_display>>

DisplayNext == ShowStatus

DisplaySpec == DisplayInit /\ [][DisplayNext]_vars

Sentinels == {"N/A", Unknown("N/A")}

\* the key that item is read from is not in the fetched state
Absent(item) == ItemKey[item][2] \notin DOMAIN fetched[ItemKey[item][1]]

\* C12: for a fetched state that lacks any of the keys read, every item read
\* from an absent key is shown as the sentinel 'N/A' or 'Unknown (N/A)'.
C12_AbsentKeyShowsSentinel ==
    shown # EmptyDict =>
        \A item \in DOMAIN ItemKey : Absent(item) => shown[item] \in Sentinels

\* ================================================== download_last_media
\* the number of status polls the wait of download_last_media is followed for
MaxPolls == 2

\* the position of the last c in s, 0 when there is none
LastIndexOf(s, c) ==
    LET I == {i \in 1..Len(s) : s[i] = c}
    IN  IF I = {} THEN 0 ELSE CHOOSE i \in I : \A j \in I : j <= i

\* s.split(c)[-1]
PySplitLast(s, c) == SubSeq(s, LastIndexOf(s, c) + 1, Len(s))

\* s.rsplit(c, 1)[0]
PyRsplitHead(s, c) ==
    IF LastIndexOf(s, c) = 0 THEN s ELSE SubSeq(s, 1, LastIndexOf(s, c) - 1)

\* extension = last_file.split('.')[-1]
\* output_filename = output_filename.rsplit('.', 1)[0] + f'.{extension}'
AdjustExtension(name, file) == PyRsplitHead(name, ".") \o <<".">> \o PySplitLast(file, ".")

\* directory and file names of the card
D100 == <<"1", "0", "0", "G", "O", "P", "R", "O">>
D101 == <<"1", "0", "1", "G", "O", "P", "R", "O">>
GX01_MP4 == <<"G", "X", "0", "1", ".", "M", "P", "4">>
G002_JPG == <<"G", "0", "0", "2", ".", "J", "P", "G">>
DirNames == {D100, D101}
FileNames == {GX01_MP4, G002_JPG}

\* the sequences over S of length 0..n
SeqsUpTo(S, n) == UNION {[1..k -> S] : k \in 0..n}

\* the 'media' list of GET /gopro/media/list: directories {'d', 'fs'}, files {'n'}
MaxDirs == 2
MaxFiles == 2
Listings == SeqsUpTo([d : DirNames, fs : SeqsUpTo([n : FileNames], MaxFiles)], MaxDirs)

\* the destination names a caller passes: 'out', 'out.avi', './out', 'v.2/out.avi'
DestNames ==
    {<<"o", "u", "t">>,
     <<"o", "u", "t", ".", "a", "v", "i">>,
     <<".", "/", "o", "u", "t">>,
     <<"v", ".", "2", "/", "o", "u", "t", ".", "a", "v", "i">>}

DownloadFrame == UNCHANGED <<sn, base_url, op, timeout, started, beside_media>>

\* the caller calls download_last_media(output_filename)
download_last_media_call ==
    /\ pc = "idle"
    /\ op' = "download_last_media"
    /\ pc' = "is_encoding"
    /\ result' = "none"
    /\ reqlog' = <<>>
    /\ \E name \in DestNames : dest' = name /\ output_filename' = name
    /\ media_data' = EmptyDict /\ last_dir' = <<>> /\ last_file' = <<>> /\ written' = <<>>
    /\ UNCHANGED <<sn, base_url, last_status, attempt, timeout, elapsed, started>>
    /\ UNCHANGED <<camvars, beside_media>>

\* while self.is_encoding(): time.sleep(1)
download_last_media_wait ==
    /\ op = "download_last_media" /\ pc = "is_encoding"
    /\ Len(reqlog) < MaxPolls
    /\ \E out \in Outcomes, keys \in SUBSET StatusKeys :
         /\ out # "ok" => keys = {}
         /\ GetState(out, keys, "10")
         /\ IF GetStateRaises(out) THEN Return("False")
            ELSE IF IsEncodingTest(StateBody(keys)) THEN Goto("is_encoding")
            ELSE Goto("get_media_list")
    /\ UNCHANGED mediavars
    /\ DownloadFrame

\* ml = self.get_media_list(); media_data = ml.json(); the choice of the last
\* directory and file; the adjusted output name.  An answer that is not 2xx
\* carries no listing: ml.json() or media_data['media'] raises.
download_last_media_list ==
    /\ op = "download_last_media" /\ pc = "get_media_list"
    /\ \E out \in Outcomes, media \in Listings :
         /\ SessionGet(Path("get_media_list"), out)
         /\ IF out # "ok"
              THEN /\ Return("False")
                   /\ UNCHANGED <<media_data, last_dir, last_file, output_filename>>
            ELSE IF media = <<>> \/ media[Len(media)].fs = <<>>
              THEN /\ Return("False")
                   /\ media_data' = [media |-> media]
                   /\ UNCHANGED <<last_dir, last_file, output_filename>>
            ELSE /\ Goto("download")
                 /\ media_data' = [media |-> media]
                 /\ last_dir' = media[Len(media)].d
                 /\ last_file' = media[Len(media)].fs[Len(media[Len(media)].fs)].n
                 /\ output_filename' = AdjustExtension(output_filename, last_file')
    /\ UNCHANGED <<last_status, dest, written>>
    /\ DownloadFrame

\* with self.session.get(url, stream=True): raise_for_status; open; write chunks
\* (complete: iter_content delivers the whole body)
download_last_media_get ==
    /\ op = "download_last_media" /\ pc = "download"
    /\ \E out \in Outcomes, complete \in BOOLEAN :
         /\ out # "ok" => complete
         /\ reqlog' = Append(reqlog, [url |-> <<base_url, "/videos/DCIM", last_dir, last_file>>,
                                      out |-> out, key |-> "", val |-> {}])
         /\ written' = IF out = "ok" THEN output_filename ELSE written
         /\ Return(PyBool(out = "ok" /\ complete))
    /\ UNCHANGED <<last_status, camvars>>
    /\ UNCHANGED <<dest, output_filename, media_data, last_dir, last_file>>
    /\ DownloadFrame

\* the client is constructed; the camera may still be finishing a recording
MediaInit ==
    /\ sn = SN3
    /\ base_url = DeriveBaseUrl(sn)
    /\ last_status = EmptyDict
    /\ op = "none" /\ pc = "idle" /\ result = "none" /\ reqlog = <<>>
    /\ attempt = 0 /\ timeout = 0 /\ elapsed = 0 /\ started = FALSE
    /\ cam_rec \in {0, 1}
    /\ cam_busy = 0
    /\ cam_pending \in (IF cam_rec = 1 THEN {"none", "stop"} ELSE {"none"})
    /\ busy_kept = FALSE
    /\ MediaIdle /\ IdleBesideMedia

MediaNext ==
    \/ download_last_media_call
    \/ download_last_media_wait
    \/ download_last_media_list
    \/ download_last_media_get
    \/ CameraFinalize

MediaSpec == MediaInit /\ [][MediaNext]_vars

\* the characters of the names above, in code-point order
Alphabet ==
    <<".", "/", "0", "1", "2", "4", "G", "J", "M", "O", "P", "R", "X",
      "a", "i", "o", "t", "u", "v">>

CharCode(c) == CHOOSE i \in DOMAIN Alphabet : Alphabet[i] = c

\* a <= b in the lexical order of strings
RECURSIVE LexLeq(_, _)
LexLeq(a, b) ==
    IF a = <<>> THEN TRUE
    ELSE IF b = <<>> THEN FALSE
    ELSE IF Head(a) = Head(b) THEN LexLeq(Tail(a), Tail(b))
    ELSE CharCode(Head(a)) < CharCode(Head(b))

LexLast(S) == CHOOSE x \in S : \A y \in S : LexLeq(y, x)

\* the directories of a listing, and the files it lists under directory d
DirsOf(media) == {media[i].d : i \in DOMAIN media}
FilesOf(media, d) ==
    UNION {{media[i].fs[j].n : j \in DOMAIN media[i].fs} :
           i \in {k \in DOMAIN media : media[k].d = d}}

\* download_last_media has chosen a file of the listing
Chosen == op = "download_last_media" /\ last_file # <<>>

\* C13: the directory chosen is the lexically-last directory of the listing
\* and the file chosen is the lexically-last file listed under it, whatever
\* the order of the listing.
C13_LexicallyLast ==
    Chosen =>
        LET media == media_data["media"] IN
        /\ last_dir = LexLast(DirsOf(media))
        /\ last_file = LexLast(FilesOf(media, last_dir))

\* the extension of a path: what follows the last dot of its last component,
\* a dot that opens the component apart; 0 when the path has none
ExtensionDot(s) ==
    LET i == LastIndexOf(s, ".")
    IN  IF i > LastIndexOf(s, "/") + 1 THEN i ELSE 0

UpToExtension(s) == IF ExtensionDot(s) = 0 THEN s ELSE SubSeq(s, 1, ExtensionDot(s) - 1)

ExtensionOf(s) == SubSeq(s, ExtensionDot(s) + 1, Len(s))

\* C14: the file written is named by the caller's destination name up to its
\* extension (all of it when it has none), a dot, and the source file's
\* extension.
C14_SourceExtension ==
    (op = "download_last_media" /\ written # <<>>) =>
        written = UpToExtension(dest) \o <<".">> \o ExtensionOf(last_file)

\* ================================================== the setting wrappers
\* the (setting, option) each wrapper writes into its URL
WrapperSetting ==
    ("set_resolution_5_3k" :> <<"2", "100">> @@ "set_resolution_5k" :> <<"2", "24">> @@
     "set_resolution_4k" :> <<"2", "1">> @@ "set_resolution_2_7k" :> <<"2", "4">> @@
     "set_resolution_1080" :> <<"2", "9">> @@
     "set_fps_240" :> <<"3", "0">> @@ "set_fps_200" :> <<"3", "13">> @@
     "set_fps_120" :> <<"3", "1">> @@ "set_fps_60" :> <<"3", "5">> @@
     "set_fps_30" :> <<"3", "8">> @@ "set_fps_24" :> <<"3", "10">> @@
     "set_lens_linear" :> <<"121", "4">> @@ "set_lens_wide" :> <<"121", "0">> @@
     "set_lens_narrow" :> <<"121", "2">> @@ "set_lens_superview" :> <<"121", "3">> @@
     "set_lens_max_superview" :> <<"121", "7">> @@
     "set_lens_linear_horizon" :> <<"121", "8">> @@
     "set_auto_power_off_never" :> <<"59", "0">> @@
     "set_auto_power_off_5min" :> <<"59", "4">>)

SettingWrappers == DOMAIN WrapperSetting

\* '/gopro/camera/setting?setting=<id>&option=<id>'
SettingPath(so) == "/gopro/camera/setting?setting=" \o so[1] \o "&option=" \o so[2]

\* C15: a setting wrapper whose request the camera accepted or rejected has
\* sent that one GET /gopro/camera/setting?setting=<id>&option=<id> and no
\* other request, and gives True for the accepted request, False for the
\* rejected one.
C15_WrappersReturnBoolean ==
    \A o \in SettingWrappers :
        (Returned(o) /\ reqlog[1].out \in {"ok", "http_error"}) =>
            /\ Len(reqlog) = 1
            /\ reqlog[1].url = <<base_url, SettingPath(WrapperSetting[o])>>
            /\ result = PyBool(reqlog[1].out = "ok")

\* ---- the camera's settings map under repeated wrapper calls
\* the wrappers followed here: the three guarded ones and four of the others,
\* over settings 2, 3 and 121
RepeatedWrappers ==
    {"set_resolution_5_3k", "set_resolution_4k", "set_resolution_1080",
     "set_fps_240", "set_fps_120", "set_lens_linear", "set_lens_wide"}

\* the camera carries out a setting request it accepts
CameraApply(o, out) ==
    cam_settings' =
        IF out = "ok"
          THEN [cam_settings EXCEPT ![WrapperSetting[o][1]] = WrapperSetting[o][2]]
          ELSE cam_settings

\* url = self.base_url + '...': the wrapper assigns no attribute of the client
ClientAfterWrapper_appending(path) == <<base_url \o <<path>>, last_status>>

ClientAfterWrapper(path) == <<base_url, last_status>>

SettingsFrame == UNCHANGED <<sn, op, timeout, started, once, beside_settings>>

\* the caller calls a setting wrapper
setting_call ==
    /\ pc = "idle"
    /\ \E o \in RepeatedWrappers : op' = o
    /\ pc' = "get"
    /\ result' = "none"
    /\ reqlog' = <<>>
    /\ once' = IF op \in RepeatedWrappers /\ reqlog[1].out = "ok"
                 THEN [op |-> op, settings |-> cam_settings,
                       client |-> <<base_url, last_status>>]
                 ELSE NoCall
    /\ UNCHANGED <<sn, base_url, last_status, attempt, timeout, elapsed, started>>
    /\ UNCHANGED <<camvars, cam_settings, beside_settings>>

\* response = self.session.get(url); return response
setting_passthrough ==
    /\ op \in RepeatedWrappers \cap PassThroughOps /\ pc = "get"
    /\ \E out \in Outcomes :
         /\ SessionGet(Path(op), out)
         /\ CameraApply(op, out)
         /\ Return(IF SessionGetRaises(out) THEN "raised" ELSE "Response")
    /\ base_url' = ClientAfterWrapper(Path(op))[1]
    /\ last_status' = ClientAfterWrapper(Path(op))[2]
    /\ SettingsFrame

\* try: get; raise_for_status; return True / except Exception: return False
setting_guarded ==
    /\ op \in RepeatedWrappers \cap GuardedOps /\ pc = "get"
    /\ \E out \in Outcomes :
         /\ SessionGet(Path(op), out)
         /\ CameraApply(op, out)
         /\ Return(PyBool(~(SessionGetRaises(out) \/ RaiseForStatusRaises(out))))
    /\ base_url' = ClientAfterWrapper(Path(op))[1]
    /\ last_status' = ClientAfterWrapper(Path(op))[2]
    /\ SettingsFrame

\* a constructed client, which may have fetched a state already
SettingsInit ==
    /\ sn \in Serials
    /\ base_url = DeriveBaseUrl(sn)
    /\ last_status \in {EmptyDict, [status |-> [k \in StatusKeys |-> 0]]}
    /\ op = "none" /\ pc = "idle" /\ result = "none" /\ reqlog = <<>>
    /\ attempt = 0 /\ timeout = 0 /\ elapsed = 0 /\ started = FALSE
    /\ cam_rec = 0 /\ cam_busy = 0 /\ cam_pending = "none" /\ busy_kept = FALSE
    /\ SettingsIdle /\ IdleBesideSettings

SettingsNext ==
    \/ setting_call
    \/ setting_passthrough
    \/ setting_guarded

SettingsSpec == SettingsInit /\ [][SettingsNext]_vars

\* the wrapper that has returned was accepted, and so was the same wrapper
\* called just before it
Repeated(o) == Returned(o) /\ reqlog[1].out = "ok" /\ once.op = o

MaxDuration == 2
MaxInterval == 1

\* the duration arguments: None, and the numbers 0..MaxDuration
Durations == {{}} \cup {{d} : d \in 0..MaxDuration}
Intervals == 0..MaxInterval

\* the clock is followed up to here
MonitorCap == MaxDuration + 1

\* if duration and (time.time() - start_time) >= duration: break
BreakTest(dur, t) == \E d \in dur : d # 0 /\ t >= d

\* two of the bodies the camera may answer with: every key present, no key present
MonitorSnapshots ==
    {[status |-> ("70" :> "80" @@ "10" :> "1" @@ "43" :> "0" @@ "8" :> "0" @@ "54" :> "900"),
      settings |-> ("2" :> "1" @@ "3" :> "8" @@ "121" :> "19")],
     [status |-> EmptyDict, settings |-> EmptyDict]}

MonitorFrame == UNCHANGED <<sn, base_url, op, reqlog, timeout, started, duration, interval,
                            camvars, beside_monitor>>

\* the caller calls get_status_realtime(interval, duration); start_time = time.time()
get_status_realtime_call ==
    /\ pc = "idle"
    /\ op' = "get_status_realtime"
    /\ pc' = "loop"
    /\ result' = "none"
    /\ reqlog' = <<>>
    /\ elapsed' = 0
    /\ duration' \in Durations
    /\ interval' \in Intervals
    /\ fetched' = EmptyDict /\ shown' = EmptyDict
    /\ UNCHANGED <<sn, base_url, last_status, attempt, timeout, started>>
    /\ UNCHANGED <<camvars, beside_monitor>>

\* while True: if duration and ... >= duration: break
get_status_realtime_loop ==
    /\ op = "get_status_realtime" /\ pc = "loop"
    /\ IF BreakTest(duration, elapsed) THEN Return("None") ELSE Goto("get_state")
    /\ UNCHANGED <<last_status, fetched, shown>>
    /\ MonitorFrame

\* state = self.get_state(), not guarded: what it raises leaves the method;
\* then the print lines
get_status_realtime_fetch ==
    /\ op = "get_status_realtime" /\ pc = "get_state"
    /\ \E out \in Outcomes, body \in MonitorSnapshots :
         IF GetStateRaises(out)
           THEN /\ Return("raised")
                /\ UNCHANGED <<last_status, fetched, shown>>
           ELSE /\ Goto("sleep")
                /\ last_status' = body
                /\ fetched' = body
                /\ shown' = StatusDisplay(body)
    /\ MonitorFrame

\* time.sleep(interval)
get_status_realtime_sleep ==
    /\ op = "get_status_realtime" /\ pc = "sleep"
    /\ pc' = "loop"
    /\ elapsed' = IF elapsed + interval > MonitorCap THEN MonitorCap ELSE elapsed + interval
    /\ UNCHANGED <<result, attempt, last_status, fetched, shown>>
    /\ MonitorFrame

\* except KeyboardInterrupt: print(...); the method returns None
get_status_realtime_interrupt ==
    /\ op = "get_status_realtime" /\ pc # "idle"
    /\ Return("None")
    /\ UNCHANGED <<last_status, fetched, shown>>
    /\ MonitorFrame

\* a request takes time
get_status_realtime_latency ==
    /\ op = "get_status_realtime" /\ pc = "get_state"
    /\ elapsed < MonitorCap
    /\ elapsed' = elapsed + 1
    /\ UNCHANGED <<pc, result, attempt, last_status, fetched, shown>>
    /\ MonitorFrame

MonitorInit ==
    /\ AtRest
    /\ DisplayIdle /\ MonitorIdle /\ IdleBesideMonitor

MonitorNext ==
    \/ get_status_realtime_call
    \/ get_status_realtime_loop
    \/ get_status_realtime_fetch
    \/ get_status_realtime_sleep
    \/ get_status_realtime_interrupt
    \/ get_status_realtime_latency

MonitorSpec == MonitorInit /\ [][MonitorNext]_vars

\* get_status_realtime is at the head of its loop and the time elapsed has
\* reached the number given as duration
DurationReached ==
    /\ op = "get_status_realtime" /\ pc = "loop"
    /\ \E d \in duration : elapsed >= d

\* C17: for every duration that is a number, 0 included, a step taken from
\* the head of the loop once the elapsed time has reached duration leaves the
\* loop and returns normally.
C17_ReturnsAtDuration ==
    [][DurationReached => (pc' = "idle" /\ result' = "None")]_vars

\* ================================================== several clients
SN1 == <<"C","3","5","0","4","2","2","4","6","9","6","4","3","1">>
SN2 == <<"C","3","5","0","4","2","2","4","6","7","7","2","2","9">>

\* two of the cameras of example_multi_camera.py, each with its own client
\* and its own worker thread
CAMERAS == ("Camera 1" :> SN1 @@ "Camera 2" :> SN2)
Names == DOMAIN CAMERAS

\* the methods the worker threads run: one that sends three requests and
\* stores the state, one that fetches and stores the state, one that sends a
\* single request
WorkerOps == {"power_on", "get_state", "mode_video"}

WorkerEntry(o) == IF o = "power_on" THEN "usb_enable" ELSE o

\* the bodies a camera answers a status fetch with
WorkerBodies == {[status |-> ("10" :> 0)], [status |-> ("10" :> 1)]}

\* get_state: self._last_status = response.json(), an attribute of the instance
StoreStatus_shared(name, body) ==
    [n \in Names |-> [cameras_gopro[n] EXCEPT !.last_status = body]]

StoreStatus(name, body) == [cameras_gopro EXCEPT ![name].last_status = body]

\* cameras_gopro[name] = GoProUSB(sn), for each camera
InstancesInit ==
    /\ AtRest
    /\ DisplayIdle /\ MonitorIdle /\ MediaIdle /\ SettingsIdle /\ FlowIdle /\ ThreadsIdle /\ CallersIdle
    /\ cameras_gopro = [n \in Names |->
                          [base_url |-> DeriveBaseUrl(CAMERAS[n]), last_status |-> EmptyDict]]
    /\ worker = [n \in Names |-> [op |-> "none", pc |-> "idle"]]
    /\ wire = [by |-> "none", url |-> <<>>]
    /\ turn = "none"

\* the thread of camera name begins a method on that camera's client
worker_call(name) ==
    /\ worker[name].pc = "idle"
    /\ \E o \in WorkerOps : worker' = [worker EXCEPT ![name] = [op |-> o, pc |-> WorkerEntry(o)]]
    /\ turn' = name
    /\ UNCHANGED <<cameras_gopro, wire, beside_instances>>

\* a request of usb_enable, set_control_external or mode_video
worker_request(name) ==
    /\ worker[name].pc \in {"usb_enable", "set_control_external", "mode_video"}
    /\ wire' = [by |-> name, url |-> <<cameras_gopro[name].base_url, Path(worker[name].pc)>>]
    /\ \E out \in Outcomes :
         LET next == IF worker[name].op = "power_on"
                       THEN power_on_next(worker[name].pc, SessionGetRaises(out))
                       ELSE "return"
         IN  worker' = [worker EXCEPT ![name].pc =
                           IF next \in {"return", "return True", "return False"}
                             THEN "idle" ELSE next]
    /\ turn' = name
    /\ UNCHANGED <<cameras_gopro, beside_instances>>

\* GoProUSB.get_state, called by the thread or by power_on
worker_get_state(name) ==
    /\ worker[name].pc = "get_state"
    /\ wire' = [by |-> name, url |-> <<cameras_gopro[name].base_url, Path("get_state")>>]
    /\ \E out \in Outcomes, body \in WorkerBodies :
         cameras_gopro' = IF GetStateRaises(out) THEN cameras_gopro
                          ELSE StoreStatus(name, body)
    /\ worker' = [worker EXCEPT ![name].pc = "idle"]
    /\ turn' = name
    /\ UNCHANGED beside_instances

InstancesNext ==
    \/ \E name \in Names : worker_call(name)
    \/ \E name \in Names : worker_request(name)
    \/ \E name \in Names : worker_get_state(name)

InstancesSpec == InstancesInit /\ [][InstancesNext]_vars

\* C18: whatever the interleaving of the two threads, a step of one thread
\* leaves the other client's base_url and last observed state as they were,
\* and the request it sends goes to the host derived from its own camera's
\* serial number.
C18_NoSharedState ==
    [][\A name \in Names :
          /\ turn' # name => cameras_gopro'[name] = cameras_gopro[name]
          /\ wire'.by = name => wire'.url[1] = DeriveBaseUrl(CAMERAS[name])]_vars

\* both threads are inside a method, and the clients hold different states
C18_Witness ==
    /\ \A name \in Names : worker[name].pc # "idle"
    /\ cameras_gopro["Camera 1"].last_status = [status |-> ("10" :> 1)]
    /\ cameras_gopro["Camera 2"].last_status = [status |-> ("10" :> 0)]
    /\ wire.by = "Camera 2" /\ turn = "Camera 1"

\* ================================================== the multi-camera main flow
\* the cameras, in the order of the CAMERAS dict
FlowCameras == <<"Camera 1", "Camera 2", "Camera 3">>
AllCameras == {FlowCameras[i] : i \in DOMAIN FlowCameras}

\* for i in range(5): display_all_status(cameras_gopro)
MonitorRounds == 5

\* the helper main runs on every camera at each of its steps
HelperOf ==
    <<"power_on_camera", "configure_camera", "get_camera_status", "start_recording_camera",
      "get_camera_status", "stop_recording_camera", "get_camera_status", "power_off_camera">>

LastStep == Len(HelperOf)

\* what the client calls inside a helper come to: power_on, record_start,
\* record_stop and power_off give True or False; the calls of configure_camera
\* and get_camera_status (mode_video, the setting wrappers, get_state) return
\* or raise
ClientGives(helper) ==
    IF helper \in {"configure_camera", "get_camera_status"}
      THEN {"returned", "raised"}
      ELSE {"True", "False"}

\* the helper raises to its caller
HelperRaises_unguarded(outcome) == outcome = "raised"

\* every helper: try: ... except Exception as e: ... return False (or the error dict)
HelperRaises(outcome) == FALSE

\* the helper met a fault, or gave False
HelperFailed(outcome) == outcome \in {"raised", "False"}

\* main calls the helper itself (step 2) or asks the future for its result
\* (display_all_status); elsewhere the futures are only waited for
ReachesMain(step) == HelperOf[step] \in {"configure_camera", "get_camera_status"}

\* step 2 takes the cameras one after the other, the pool takes them in any order
MayRun(c) ==
    /\ c \notin flow_done
    /\ flow_step = 2 =>
         \A i, j \in DOMAIN FlowCameras :
             (FlowCameras[j] = c /\ i < j) => FlowCameras[i] \in flow_done

\* the helper of the current step runs on camera c
flow_helper(c) ==
    /\ flow_step \in 1..LastStep
    /\ MayRun(c)
    /\ flow_tried' = flow_tried \cup {<<flow_step, c>>}
    /\ \E outcome \in ClientGives(HelperOf[flow_step]) :
         /\ flow_failed' = IF HelperFailed(outcome) THEN flow_failed \cup {c} ELSE flow_failed
         /\ IF HelperRaises(outcome) /\ ReachesMain(flow_step)
              THEN flow_step' = 0 /\ flow_done' = {}
              ELSE flow_step' = flow_step /\ flow_done' = flow_done \cup {c}
    /\ UNCHANGED <<flow_round, beside_flow>>

\* every camera's helper has returned: the next round of step 5, or the next step
flow_advance ==
    /\ flow_step \in 1..LastStep
    /\ flow_done = AllCameras
    /\ flow_done' = {}
    /\ IF flow_step = 5 /\ flow_round + 1 < MonitorRounds
         THEN flow_round' = flow_round + 1 /\ flow_step' = flow_step
         ELSE flow_round' = 0 /\ flow_step' = flow_step + 1
    /\ UNCHANGED <<flow_failed, flow_tried, beside_flow>>

FlowInit ==
    /\ AtRest
    /\ DisplayIdle /\ MonitorIdle /\ MediaIdle /\ SettingsIdle /\ InstancesIdle
    /\ FlowIdle /\ ThreadsIdle /\ CallersIdle

FlowNext ==
    \/ \E c \in AllCameras : flow_helper(c)
    \/ flow_advance

FlowSpec == FlowInit /\ [][FlowNext]_vars

\* main is past step q: it has gone on to a later step, or has left the flow
\* for its 'except Exception' clause
Past(q) == flow_step = 0 \/ q < flow_step

\* C19: whatever fault or False result the helpers met, once main is past a
\* step that step's helper has been called on every camera, so a failure on one
\* camera keeps no step and no later step from the others.
C19_OthersStillTried ==
    \A q \in 1..LastStep : Past(q) => \A c \in AllCameras : <<q, c>> \in flow_tried

\* main has finished all eight steps although helpers failed on Camera 1
C19_Witness ==
    /\ flow_step = LastStep + 1
    /\ flow_failed = {"Camera 1"}
    /\ \A q \in 1..LastStep : <<q, "Camera 2">> \in flow_tried /\ <<q, "Camera 3">> \in flow_tried

\* ================================================== the livestream demos
\* C20: the livestream operations the demos call (start_livestream,
\* get_livestream_status, stop_livestream) are methods of the client: a call
\* of one of them never ends in an undefined-operation fault.
C20_LivestreamOperationsExist ==
    (pc = "idle" /\ op \in LivestreamDemoCalls) => result # "AttributeError"

\* ============================================ the usage example's address
\* the address the usage example's comment gives for 'C1234567890'
DocumentedAddress ==
    <<"h","t","t","p",":","/","/","1","7","2",".","2","9",".","1","9","0",".","5","1">>

\* C21: a client built for the serial number 'C1234567890' uses the address
\* http://172.29.190.51, the one the usage example documents.
C21_UsageExampleAddress == sn = SN_USAGE => base_url = DocumentedAddress

\* ====================================== download_last_media: wait, failures
\* a request for the media listing or for a file
IsMediaRequest(r) == r.url[2] \in {"/gopro/media/list", "/videos/DCIM"}

\* a status fetch that was answered with recording flag 10 set
ReadEncoding(r) == IsFetch(r) /\ r.out = "ok" /\ r.val = {1}

\* the call met a failure: a request not answered 2xx (HTTP error or transport
\* fault), an empty media list, or a last directory without files
MetFailure ==
    \/ \E i \in DOMAIN reqlog : reqlog[i].out # "ok"
    \/ (media_data # EmptyDict /\ last_file = <<>>)

C22_StillWaiting ==
    /\ op = "download_last_media" /\ pc = "is_encoding"
    /\ Len(reqlog) = MaxPolls
    /\ \A i \in DOMAIN reqlog : ReadEncoding(reqlog[i])

\* ===================== the threads of the multi-camera main flow, by request
\* ThreadPoolExecutor(max_workers=3)
max_workers == 3

\* the requests the client calls of a helper send, in order (record_stop: the
\* shutter-stop, the polls of its loop and its final check)
HelperRequests(helper) ==
    CASE helper = "power_on_camera" -> <<"usb_enable", "set_control_external", "get_state">>
      [] helper = "configure_camera" ->
            <<"mode_video", "set_resolution_4k", "set_fps_120", "set_lens_linear", "get_state">>
      [] helper = "get_camera_status" -> <<"get_state">>
      [] helper = "start_recording_camera" -> <<"shutter_start", "get_state">>
      [] helper = "stop_recording_camera" ->
            <<"shutter_stop">> \o [i \in 1..(max_attempts + 1) |-> "get_state"]
      [] helper = "power_off_camera" -> <<"usb_disable">>

\* the request raises inside the client: session.get on a transport fault,
\* raise_for_status (get_state, shutter start and stop) on a 4xx/5xx answer
RequestRaises(o, out) ==
    \/ SessionGetRaises(out)
    \/ (o \in {"get_state", "shutter_start", "shutter_stop"} /\ RaiseForStatusRaises(out))

\* the helper returns after its k-th request: it was the last one, it raised
\* (the client's or the helper's except clause), or it was a poll of
\* record_stop that read flag 10 clear
HelperReturns(helper, k, out, stopped) ==
    \/ k = Len(HelperRequests(helper))
    \/ RequestRaises(HelperRequests(helper)[k], out)
    \/ (helper = "stop_recording_camera" /\ k > 1 /\ stopped)

\* the helper, one task per camera, in the order of cameras_gopro.items()
TasksOf(helper) == [i \in DOMAIN FlowCameras |-> [helper |-> helper, camera |-> FlowCameras[i]]]

\* main runs the helpers of this step itself, one after the other, in place of
\* a pool: 'for name, gopro in cameras_gopro.items(): configure_camera(name, gopro)'
RunsOnMain_never == FALSE

RunsOnMain == main_phase = "try" /\ HelperOf[main_step] = "configure_camera"

\* main hands out the helpers of the step it is at: executor.submit for every
\* camera, or the loop of step 2 that main walks itself
main_submit ==
    /\ main_phase = "try" /\ main_step \in 1..LastStep
    /\ ~submitted /\ pool_queue = <<>> /\ running = {}
    /\ pool_queue' = TasksOf(HelperOf[main_step])
    /\ submitted' = TRUE
    /\ UNCHANGED <<main_phase, main_step, main_round, running, configured, sent_last>>
    /\ UNCHANGED beside_threads

\* a free worker of the pool takes the oldest helper handed out; main takes
\* its next one when the one before has returned
thread_begin ==
    /\ pool_queue # <<>>
    /\ IF RunsOnMain THEN running = {} ELSE Cardinality(running) < max_workers
    /\ running' = running \cup {[helper |-> Head(pool_queue).helper,
                                 camera |-> Head(pool_queue).camera, sent |-> 0]}
    /\ pool_queue' = Tail(pool_queue)
    /\ UNCHANGED <<main_phase, main_step, main_round, submitted, configured, sent_last>>
    /\ UNCHANGED beside_threads

\* a helper that has begun sends its next request, and returns or goes on
thread_request ==
    /\ \E t \in running, out \in Outcomes, stopped \in BOOLEAN :
         LET k == t.sent + 1
         IN  /\ sent_last' = [camera |-> t.camera, path |-> Path(HelperRequests(t.helper)[k])]
             /\ IF HelperReturns(t.helper, k, out, stopped)
                  THEN /\ running' = running \ {t}
                       /\ configured' = IF t.helper = "configure_camera"
                                          THEN configured \cup {t.camera} ELSE configured
                  ELSE /\ running' = (running \ {t}) \cup {[t EXCEPT !.sent = k]}
                       /\ configured' = configured
    /\ UNCHANGED <<main_phase, main_step, main_round, submitted, pool_queue>>
    /\ UNCHANGED beside_threads

\* every helper of the step has returned (the end of the with block, of the
\* loop, of a round of step 5): main goes on
main_advance ==
    /\ main_phase = "try" /\ main_step \in 1..LastStep
    /\ submitted /\ pool_queue = <<>> /\ running = {}
    /\ submitted' = FALSE
    /\ IF main_step = 5 /\ main_round + 1 < MonitorRounds
         THEN main_round' = main_round + 1 /\ main_step' = main_step
         ELSE main_round' = 0 /\ main_step' = main_step + 1
    /\ UNCHANGED <<main_phase, pool_queue, running, configured, sent_last>>
    /\ UNCHANGED beside_threads

\* Ctrl-C: KeyboardInterrupt is raised in main.  A helper main runs itself is
\* cut short with the rest of its loop (except Exception does not catch it); the
\* helpers of a pool run on, and the with block waits for them
KeyboardInterrupt ==
    /\ main_phase = "try" /\ main_step \in 1..LastStep
    /\ main_phase' = "interrupted"
    /\ IF RunsOnMain THEN running' = {} /\ pool_queue' = <<>>
                     ELSE UNCHANGED <<running, pool_queue>>
    /\ UNCHANGED <<main_step, main_round, submitted, configured, sent_last>>
    /\ UNCHANGED beside_threads

\* except KeyboardInterrupt: a new pool; executor.submit(stop_recording_camera, ...)
\* for every camera
handler_stop ==
    /\ main_phase = "interrupted" /\ pool_queue = <<>> /\ running = {}
    /\ main_phase' = "handler"
    /\ pool_queue' = TasksOf("stop_recording_camera")
    /\ UNCHANGED <<main_step, main_round, submitted, running, configured, sent_last>>
    /\ UNCHANGED beside_threads

\* time.sleep(2); executor.submit(power_off_camera, ...) for every camera, on
\* the same pool
handler_power_off ==
    /\ main_phase = "handler"
    /\ main_phase' = "handler_exit"
    /\ pool_queue' = pool_queue \o TasksOf("power_off_camera")
    /\ UNCHANGED <<main_step, main_round, submitted, running, configured, sent_last>>
    /\ UNCHANGED beside_threads

\* the end of the handler's with block: every helper has returned
handler_exit ==
    /\ main_phase = "handler_exit" /\ pool_queue = <<>> /\ running = {}
    /\ main_phase' = "exited"
    /\ UNCHANGED <<main_step, main_round, submitted, pool_queue, running, configured, sent_last>>
    /\ UNCHANGED beside_threads

ThreadsInit ==
    /\ AtRest
    /\ DisplayIdle /\ MonitorIdle /\ MediaIdle /\ SettingsIdle /\ InstancesIdle /\ FlowIdle
    /\ ThreadsIdle /\ CallersIdle

ThreadsNext ==
    \/ main_submit
    \/ thread_begin
    \/ thread_request
    \/ main_advance
    \/ KeyboardInterrupt
    \/ handler_stop
    \/ handler_power_off
    \/ handler_exit

ThreadsSpec == ThreadsInit /\ [][ThreadsNext]_vars

\* the helpers handed out or begun
Pending == {pool_queue[i].helper : i \in DOMAIN pool_queue} \cup {t.helper : t \in running}

\* C23: step 2 configures the cameras one at a time: at most one
\* configure_camera is running, it runs for a camera only when configure_camera
\* has returned for every camera before it, and no shutter-start is handed out,
\* begun or sent before configure_camera has returned for all cameras.
C23_ConfigurationSerialized ==
    /\ Cardinality({t \in running : t.helper = "configure_camera"}) <= 1
    /\ \A t \in running : t.helper = "configure_camera" =>
          \A i, j \in DOMAIN FlowCameras :
              (FlowCameras[j] = t.camera /\ i < j) => FlowCameras[i] \in configured
    /\ "start_recording_camera" \in Pending => configured = AllCameras
    /\ sent_last.path = Path("shutter_start") => configured = AllCameras

\* Camera 3 is being configured, its frame-rate request just sent
C23_Witness ==
    /\ \E t \in running : t.helper = "configure_camera" /\ t.camera = "Camera 3" /\ t.sent = 3
    /\ sent_last = [camera |-> "Camera 3", path |-> Path("set_fps_120")]
    /\ configured = {"Camera 1", "Camera 2"}

\* shutter-start has been sent to a camera while another start helper is running
C23_StartSent ==
    /\ sent_last.path = Path("shutter_start")
    /\ Cardinality(running) > 1

\* main is in its 'except KeyboardInterrupt' clause
InHandler == main_phase \in {"handler", "handler_exit"}

\* C26: in the interrupt path no camera has two helpers running at once:
\* power_off_camera for a camera never runs while stop_recording_camera for
\* that camera has not returned.
C26_OneWorkerPerCamera ==
    InHandler => \A t, u \in running : t.camera = u.camera => t.helper = u.helper

\* ================================== the callers' configuration sequences
\* the callers of the source that configure a camera
SourceCallers ==
    {"configure_camera", "example_usage.main", "demo_quick_recording",
     "demo_preview_display", "demo_frame_processing", "demo_save_frames"}

\* the client calls of a caller's configuration sequence, in order
ConfigurationCalls_fps_first(c) ==
    CASE c = "demo_quick_recording" ->
            <<"mode_video", "set_fps_240", "set_resolution_5_3k", "set_lens_linear">>
      [] c \in {"configure_camera", "example_usage.main"} ->
            <<"mode_video", "set_fps_120", "set_resolution_4k", "set_lens_linear">>
      [] OTHER -> <<"set_fps_120", "set_resolution_4k", "set_lens_linear">>

ConfigurationCalls(c) ==
    CASE c = "demo_quick_recording" ->
            <<"mode_video", "set_resolution_5_3k", "set_fps_240", "set_lens_linear">>
      [] c \in {"configure_camera", "example_usage.main"} ->
            <<"mode_video", "set_resolution_4k", "set_fps_120", "set_lens_linear">>
      [] OTHER -> <<"set_resolution_4k", "set_fps_120", "set_lens_linear">>

\* what a caller of its own may call: up to two of these wrappers, in any order
OwnCalls == SeqsUpTo({"set_resolution_4k", "set_fps_120", "set_fps_240"}, 2) \ {<<>>}

\* the call raises to the caller: a transport fault in a wrapper without try
CallRaises(o, out) == o \notin GuardedOps /\ SessionGetRaises(out)

\* a caller begins its configuration sequence on a client
caller_begin ==
    /\ pc = "idle"
    /\ \E c \in SourceCallers \cup {"own"} :
         /\ caller' = c
         /\ script' \in (IF c = "own" THEN OwnCalls ELSE {ConfigurationCalls(c)})
    /\ called' = 0
    /\ op' = "none" /\ pc' = "configuring" /\ result' = "none" /\ reqlog' = <<>>
    /\ UNCHANGED <<sn, base_url, last_status, attempt, timeout, elapsed, started>>
    /\ UNCHANGED beside_callers

\* the caller makes its next call: the wrapper sends its one request; an
\* exception ends the sequence (the caller's except clause, or no handler)
caller_call ==
    /\ pc = "configuring"
    /\ \E out \in Outcomes :
         LET o == script[called + 1]
         IN  /\ op' = o
             /\ reqlog' = Append(reqlog, Request(Path(o), out, "", {}))
             /\ result' = IF CallRaises(o, out) THEN "raised"
                          ELSE IF o \in GuardedOps THEN PyBool(out = "ok")
                          ELSE "Response"
             /\ pc' = IF CallRaises(o, out) \/ called + 1 = Len(script)
                        THEN "idle" ELSE "configuring"
    /\ called' = called + 1
    /\ UNCHANGED <<caller, script>>
    /\ UNCHANGED <<sn, base_url, last_status, attempt, timeout, elapsed, started>>
    /\ UNCHANGED beside_callers

CallersInit == AtRest /\ IdleBesideCallers /\ CallersIdle

CallersNext ==
    \/ caller_begin
    \/ caller_call

CallersSpec == CallersInit /\ [][CallersNext]_vars

\* the request changes setting id
ChangesSetting(r, id) ==
    \E o \in SettingWrappers :
        WrapperSetting[o][1] = id /\ r.url = <<base_url, SettingPath(WrapperSetting[o])>>

\* C24: in every configuration sequence of the source's callers a frame-rate
\* request (setting 3) is preceded by a resolution request (setting 2) to the
\* same camera; the client asks for no such order: every wrapper a caller calls
\* sends its request, a frame-rate change included when no resolution change
\* went before.
C24_ResolutionBeforeFrameRate ==
    /\ caller \in SourceCallers =>
          \A j \in DOMAIN reqlog : ChangesSetting(reqlog[j], "3") =>
              \E i \in 1..(j - 1) : ChangesSetting(reqlog[i], "2")
    /\ caller # "none" =>
          /\ Len(reqlog) = called
          /\ \A k \in DOMAIN reqlog :
                /\ reqlog[k].url[2] = Path(script[k])
                /\ script[k] \in SettingWrappers =>
                      reqlog[k].url = <<base_url, SettingPath(WrapperSetting[script[k]])>>

\* demo_quick_recording has sent its frame-rate request after a resolution
\* request that was rejected
C24_Witness ==
    /\ caller = "demo_quick_recording" /\ called = 3
    /\ ChangesSetting(reqlog[2], "2") /\ reqlog[2].out = "http_error"
    /\ ChangesSetting(reqlog[3], "3")

\* a caller of its own has sent a frame-rate request first
C24_FrameRateFirst ==
    /\ caller = "own" /\ called >= 1
    /\ ChangesSetting(reqlog[1], "3")

\* ===================================================== the last observed state
\* the request the step sends, when it sends one
SentNow == reqlog'[Len(reqlog')]

\* the step is a status fetch that was answered 2xx
SuccessfulFetch ==
    /\ reqlog' = Append(reqlog, SentNow)
    /\ IsFetch(SentNow) /\ SentNow.out = "ok"

\* the bodies the camera can answer a status fetch with
Bodies == {StateBody(keys) : keys \in SUBSET StatusKeys}

\* C25: _last_status changes only in a step that is a status fetch answered
\* 2xx, and then it becomes the body of that answer (the value the operation
\* reads is the one that body holds); a status fetch that fails and every other
\* request (power, mode, setting, shutter, preview, media) leave it as it was.
\* So it always is the body of the most recent successful fetch, or the initial
\* empty map.
C25_OnlyFetchWrites ==
    [][IF Len(reqlog') = Len(reqlog) + 1 /\ SuccessfulFetch
         THEN /\ last_status' = SentNow.body /\ last_status' \in Bodies
              /\ SentNow.key # "" =>
                    SentNow.val = (IF SentNow.key \in DOMAIN last_status'["status"]
                                     THEN {last_status'["status"][SentNow.key]} ELSE {})
         ELSE last_status' = last_status]_vars

\* record_stop has returned after a poll that failed: _last_status still is the
\* body of the poll before it
C25_Witness ==
    /\ Returned("record_stop") /\ Len(reqlog) = 3
    /\ IsFetch(reqlog[2]) /\ reqlog[2].out = "ok" /\ reqlog[2].val = {1}
    /\ IsFetch(reqlog[3]) /\ reqlog[3].out = "http_error"
    /\ last_status \in Bodies /\ DictGet(last_status["status"], "10", 0) = 1

\* ================================================= wait_until_ready: snapshots
\* the fetched body shows the camera ready: neither flag 8 nor flag 10 set
ReadySnapshot(r) ==
    /\ IsFetch(r) /\ r.out = "ok"
    /\ ~IsBusyTest(r.body) /\ ~IsEncodingTest(r.body)

\* C27: wait_until_ready gives True only if one of the status bodies it fetched
\* had both the busy flag (8) and the recording flag (10) clear.
C27_ReadyInOneSnapshot ==
    (Returned("wait_until_ready") /\ result = "True") =>
        \E i \in DOMAIN reqlog : ReadySnapshot(reqlog[i])

\* ============================================== record_start: a False result
\* C28: record_start does not give False for a start the camera accepted and
\* carries out afterwards: when it returns False after an accepted
\* shutter-start, no start is left for the camera to carry out, so a caller that
\* stops only after True leaves no camera recording.
C28_FalseMeansNotRecording ==
    (Returned("record_start") /\ result = "False" /\ reqlog[1].out = "ok")
        => cam_pending # "start"

\* ============================================= the multi-camera status table
\* get_camera_status: the dict made from a fetched state
get_camera_status(name, st) ==
    [name       |-> name,
     battery    |-> DictGet(st["status"], "70", "N/A"),
     free_space |-> DictGet(st["status"], "54", "N/A"),
     recording  |-> DictGet(st["status"], "8", "0") = "1",
     resolution |-> get_resolution_name(DictGet(st["settings"], "2", "N/A")),
     fps        |-> get_fps_name(DictGet(st["settings"], "3", "N/A")),
     lens       |-> get_lens_name(DictGet(st["settings"], "121", "N/A"))]

\* display_all_status: rec_icon = "Yes" if status['recording'] else "No"
rec_icon(status) == IF status["recording"] THEN "Yes" ELSE "No"

\* a row of display_all_status, for the state fetched from one camera
display_all_status ==
    /\ shown = EmptyDict
    /\ \E name \in AllCameras :
         LET status == get_camera_status(name, fetched)
         IN  shown' = [status EXCEPT !["recording"] = rec_icon(status)]
    /\ UNCHANGED <<fetched, clientvars, camvars, beside_display>>

TableInit == DisplayInit

TableNext == display_all_status

TableSpec == TableInit /\ [][TableNext]_vars

\* C29: the status table shows a camera as recording exactly when the fetched
\* state has the recording flag, status 10, set.
C29_TableReadsRecordingFlag ==
    shown # EmptyDict =>
        (shown["recording"] = "Yes" <=> DictGet(fetched["status"], "10", "0") = "1")

\* ======================================= the wrappers and the name tables
\* the name each resolution, frame-rate and lens wrapper stands for, in the
\* spelling of the name tables
WrapperName ==
    ("set_resolution_5_3k" :> "5.3K" @@ "set_resolution_5k" :> "5K" @@
     "set_resolution_4k" :> "4K" @@ "set_resolution_2_7k" :> "2.7K" @@
     "set_resolution_1080" :> "1080p" @@
     "set_fps_240" :> "240" @@ "set_fps_200" :> "200" @@ "set_fps_120" :> "120" @@
     "set_fps_60" :> "60" @@ "set_fps_30" :> "30" @@ "set_fps_24" :> "24" @@
     "set_lens_linear" :> "Linear" @@ "set_lens_wide" :> "Wide" @@
     "set_lens_narrow" :> "Narrow" @@ "set_lens_superview" :> "Superview" @@
     "set_lens_max_superview" :> "Max Superview" @@
     "set_lens_linear_horizon" :> "Linear + Horizon")

\* the option IDs of the wrappers and of the tables
OptionIDs ==
    {WrapperSetting[o][2] : o \in SettingWrappers}
        \cup DOMAIN resolutions \cup DOMAIN fps_map \cup DOMAIN lenses

\* the <<setting, option>> the request asks for
SentOption(r) ==
    CHOOSE so \in {"2", "3", "121"} \X OptionIDs : r.url[2] = SettingPath(so)

\* the name the tables give that option of that setting
NameOfOption(so) ==
    CASE so[1] = "2" -> get_resolution_name(so[2])
      [] so[1] = "3" -> get_fps_name(so[2])
      [] so[1] = "121" -> get_lens_name(so[2])

\* C30: for every resolution, frame-rate and lens wrapper the option ID it
\* sends is named, by _get_resolution_name / _get_fps_name / _get_lens_name,
\* as the wrapper is.
C30_WrappersMatchTables ==
    \A o \in DOMAIN WrapperName :
        Returned(o) => NameOfOption(SentOption(reqlog[1])) = WrapperName[o]
====
